---- MODULE Spec2Model ----
(***************************************************************************)
(* Smart-Building-Energy-Monitor: the schedule evaluator, the background   *)
(* poll loop, the cloud client and the device registry of src/app.py as a  *)
(* state machine.                                                          *)
(*                                                                         *)
(* Text columns and formatted values are kept as strings and computed the  *)
(* way the code computes them: strftime('%H:%M') builds "HH:MM" from the   *)
(* clock, the days column is split at commas, trimmed and lower-cased.     *)
(***************************************************************************)
EXTENDS Integers, Sequences, FiniteSets, TLC

VARIABLES
    clock,          \* local wall clock: [day, minute]; day 0 is a Monday
    devices,        \* table devices: the registered device_id values
    schedules,      \* table schedules: id -> row
    tracker,        \* schedule_execution_tracker (app.py:172)
    lastRun,        \* observer: what the latest evaluator run of this minute issued
    sentToday,      \* observer: the <<id, kind>> a POST was sent for on this day
    ackDay,         \* observer: <<id, kind>> -> day of the latest 200 answer
                    \*           with no full update of the schedule since
    cloudIn,        \* what the cloud answers to one call of get_device_data
    cloudOut,       \* what that call of get_device_data did
    readings,       \* table readings: the committed rows
    txn,            \* the rows inserted and not yet committed on the loop's connection
    pc,             \* where collect_data_periodically stands
    devlist,        \* its local devices: the list fetched in this cycle
    idx,            \* the position of the for loop in devlist
    fetched,        \* voltage, current, power, switch, is_online of this device
    ts,             \* its local ts
    last_schedule_check_minute,
    outcome,        \* the [BG] line logged in this cycle for each device
    loopErr,        \* the failure of this cycle before the device loop
    deleted,        \* observer: devices deleted with success and not added again
    deletedBefore,  \* observer: those of them deleted before this cycle began
    second,         \* the seconds of the wall clock within its minute
    waited,         \* the seconds the loop has spent in the call it is in
    evaluatedBy,    \* observer: who has run the evaluator in this minute
    readded,        \* observer: devices registered again after their deletion
    unseen,         \* observer: devices registered since the loop listed them last
    fresh,          \* observer: the devices this cycle lists for the first time
    kwh,            \* the argument of one call of calc_bill_bd
    bill,           \* its result
    inserted,       \* observer: the rows this cycle has added for each device
    online,         \* observer: the devices get_device_data gave as online in it
    runs,           \* two invocations of the evaluator that overlap: where each
                    \* stands and its locals
    acks            \* observer: <<id, kind>> -> the POSTs answered 200 in them

schedVars == <<clock, devices, schedules, tracker, lastRun, sentToday, ackDay>>

\* The state of the evaluator, without the device table.
evalVars == <<clock, schedules, tracker, lastRun, sentToday, ackDay>>

cloudVars == <<cloudIn, cloudOut>>

loopVars == <<pc, devlist, idx, fetched, ts, last_schedule_check_minute, outcome,
              loopErr>>

pollVars == <<readings, txn, loopVars, deleted, deletedBefore>>

\* The wall clock in seconds, beside the poll loop.
tickVars == <<second, waited, evaluatedBy>>

\* The history of the registrations.
joinVars == <<readded, unseen, fresh>>

billVars == <<kwh, bill>>

\* What the cycle has read and written.
rowVars == <<inserted, online>>

\* Two invocations of check_and_execute_schedules, step by step.
raceVars == <<runs, acks>>

obsVars == <<rowVars, raceVars>>

extVars == <<tickVars, joinVars, billVars, obsVars>>

vars == <<schedVars, cloudVars, pollVars, extVars>>

(***************************************************************************)
(* Bounds of the model.                                                    *)
(***************************************************************************)
\* The wall clock passes MaxTicks minute boundaries beside the poll loop.
MaxTicks == 2
\* The clock runs over the days 0..MaxDay: a week and the Monday after it.
MaxDay == 7
\* The status array of the cloud holds at most MaxPoints data points.
MaxPoints == 3
\* int(time.time()) reads one of the seconds 0..MaxSecond of the minute.
MaxSecond == 1
\* calc_bill_bd is called with up to MaxKwh kWh.
MaxKwh == 410

(***************************************************************************)
(* Strings.                                                                *)
(***************************************************************************)
\* One decimal digit as text.
Digit(n) == <<"0", "1", "2", "3", "4", "5", "6", "7", "8", "9">>[n + 1]

\* A number printed with two digits, zero padded (%H, %M).
TwoDigits(n) == Digit(n \div 10) \o Digit(n % 10)

\* str.lower() of one character, over the letters weekday text is written in.
LowerChar(c) ==
    CASE c = "M" -> "m" [] c = "T" -> "t" [] c = "W" -> "w" [] c = "F" -> "f"
      [] c = "S" -> "s" [] OTHER -> c

RECURSIVE Lower(_)
Lower(s) ==
    IF Len(s) = 0 THEN ""
    ELSE LowerChar(SubSeq(s, 1, 1)) \o Lower(SubSeq(s, 2, Len(s)))

RECURSIVE Strip(_)
Strip(s) ==
    IF Len(s) = 0 THEN ""
    ELSE IF SubSeq(s, 1, 1) = " " THEN Strip(SubSeq(s, 2, Len(s)))
    ELSE IF SubSeq(s, Len(s), Len(s)) = " " THEN Strip(SubSeq(s, 1, Len(s) - 1))
    ELSE s

\* s.split(','): the pieces between the commas, never an empty list.
RECURSIVE SplitFrom(_, _, _)
SplitFrom(s, i, piece) ==
    IF i > Len(s) THEN <<piece>>
    ELSE IF SubSeq(s, i, i) = "," THEN <<piece>> \o SplitFrom(s, i + 1, "")
    ELSE SplitFrom(s, i + 1, piece \o SubSeq(s, i, i))

Split(s) == SplitFrom(s, 1, "")

(***************************************************************************)
(* The clock.                                                              *)
(***************************************************************************)
MinutesPerDay == 1440

\* The minutes of the day at which the general specification observes the
\* program: 08:00 and 18:00. At a minute that is no schedule's start or end
\* the evaluator issues nothing.
ClockMinutes == {480, 1080}

\* The days on which it observes the program: the Monday and the Tuesday of
\* every week. No schedule of the model lists another weekday, so that on the
\* other days the evaluator issues nothing.
ClockDays == {d \in 0..MaxDay : d % 7 \in {0, 1}}

ClockPoints == [day : ClockDays, minute : ClockMinutes]

Before(a, b) == a.day < b.day \/ (a.day = b.day /\ a.minute < b.minute)

\* now.strftime('%H:%M')
StrftimeHM(now) == TwoDigits(now.minute \div 60) \o ":" \o TwoDigits(now.minute % 60)

\* now.strftime('%A'), day 0 being a Monday
StrftimeA(now) ==
    <<"Monday", "Tuesday", "Wednesday", "Thursday", "Friday", "Saturday",
      "Sunday">>[(now.day % 7) + 1]

(***************************************************************************)
(* The cloud client: get_device_info and get_device_data (app.py:86-168).  *)
(* A JSON value is [t |-> its type, v |-> its content]: a dict is a        *)
(* function of its keys, a list a sequence.                                *)
(***************************************************************************)
JNull == [t |-> "null", v |-> 0]
JBool(b) == [t |-> "bool", v |-> b]
JNum(n) == [t |-> "num", v |-> n]
JStr(x) == [t |-> "str", v |-> x]
JList(l) == [t |-> "list", v |-> l]
JDict(d) == [t |-> "dict", v |-> d]

\* bool(x) of Python: what 'if x' and 'not x' test.
Truthy(j) ==
    CASE j.t = "null" -> FALSE
      [] j.t = "bool" -> j.v
      [] j.t = "num"  -> j.v # 0
      [] j.t = "str"  -> j.v # ""
      [] j.t = "list" -> Len(j.v) > 0
      [] j.t = "dict" -> DOMAIN j.v # {}

\* An HTTP exchange: the request raises (timeout), raise_for_status raises,
\* r.json() raises, the body is JSON without 'result', or it has a result.
HttpFailures == {"timeout", "http_error", "not_json", "no_result"}

Failed(kind) == [kind |-> kind, result |-> JNull]
Answered(j) == [kind |-> "result", result |-> j]

\* get_device_info: the result payload, or None.
get_device_info(token, reply) ==
    IF ~token THEN JNull
    ELSE IF reply.kind # "result" THEN JNull
    ELSE reply.result

\* return 0, 0, 0, False, False
Returned(voltage, current, power, switch, is_online) ==
    [state |-> "returned", voltage |-> voltage, current |-> current,
     power |-> power, switch |-> switch, is_online |-> is_online]

OfflineTuple == Returned(0, 0, 0, JBool(FALSE), JBool(FALSE))

\* The call ended with an exception that left get_device_data.
Raised == [OfflineTuple EXCEPT !.state = "raised"]

\* next((d['value'] for d in data if d['code'] == code), default), from the
\* i-th element on: [found |-> the value], "default", or "error" when the
\* scan raises (an element that is no dict or has no 'code' or no 'value').
RECURSIVE FirstValue(_, _, _)
FirstValue(data, code, i) ==
    IF i > Len(data) THEN [found |-> "default", value |-> JNull]
    ELSE LET d == data[i]
         IN  IF d.t # "dict" \/ "code" \notin DOMAIN d.v
             THEN [found |-> "error", value |-> JNull]
             ELSE IF d.v.code = code
             THEN IF "value" \in DOMAIN d.v
                  THEN [found |-> "value", value |-> d.v.value]
                  ELSE [found |-> "error", value |-> JNull]
             ELSE FirstValue(data, code, i + 1)

\* d['value'] / divisor, in thousandths: -1 stands for the TypeError of a
\* value that is no number (True and False divide as 1 and 0).
Scaled(f, divisor) ==
    IF f.found = "default" THEN 0
    ELSE IF f.value.t = "num" THEN (f.value.v * 1000) \div divisor
    ELSE IF f.value.t = "bool" THEN (IF f.value.v THEN 1000 ELSE 0) \div divisor
    ELSE -1

\* The try block of get_device_data (app.py:134-168) for an online device.
DeviceStatus(token, reply, is_online) ==
    IF ~token THEN OfflineTuple
    ELSE IF reply.kind # "result" THEN OfflineTuple
    ELSE IF reply.result.t # "list" THEN OfflineTuple
    ELSE
        LET data == reply.result.v
            sw == FirstValue(data, "switch_1", 1)
            vo == FirstValue(data, "cur_voltage", 1)
            cu == FirstValue(data, "cur_current", 1)
            po == FirstValue(data, "cur_power", 1)
        IN  IF "error" \in {sw.found, vo.found, cu.found, po.found}
               \/ -1 \in {Scaled(vo, 10), Scaled(cu, 1000), Scaled(po, 10)}
            THEN OfflineTuple
            ELSE Returned(Scaled(vo, 10), Scaled(cu, 1000), Scaled(po, 10),
                          IF sw.found = "default" THEN JBool(FALSE) ELSE sw.value,
                          is_online)

\* device_info.get('online', False) is outside every try block: a payload
\* that is no dict has no method get, and the AttributeError leaves the
\* function (app.py:126).
get_device_data(in) ==
    LET device_info == get_device_info(in.token1, in.info)
    IN  IF ~Truthy(device_info) THEN OfflineTuple
        ELSE IF device_info.t # "dict" THEN Raised
        ELSE LET is_online == IF "online" \in DOMAIN device_info.v
                              THEN device_info.v.online ELSE JBool(FALSE)
             IN  IF ~Truthy(is_online) THEN OfflineTuple
                 ELSE DeviceStatus(in.token2, in.status, is_online)

(***************************************************************************)
(* The answers of the cloud.                                               *)
(***************************************************************************)
\* Result payloads of the device information request.
InfoPayloads ==
    {JDict([online |-> JBool(TRUE)]), JDict([online |-> JBool(FALSE)]),
     JDict([name |-> JStr("plug")]), JDict(<<>>), JNull, JBool(TRUE),
     JList(<<JStr("plug")>>), JList(<<>>), JStr("offline"), JNum(0)}

InfoReplies == {Failed(k) : k \in HttpFailures} \cup {Answered(j) : j \in InfoPayloads}

Point(code, value) == JDict([code |-> code, value |-> value])

\* The elements of a status array.
StatusElements ==
    {Point("switch_1", JBool(TRUE)), Point("cur_voltage", JNum(2305)),
     Point("cur_current", JNum(120)), Point("cur_power", JNum(153)),
     Point("cur_power", JStr("n/a")), JDict([value |-> JNum(1)]), JStr("switch_1")}

StatusArrays == UNION {[1..n -> StatusElements] : n \in 0..MaxPoints}

\* Result payloads of the status request.
StatusPayloads ==
    {JList(a) : a \in StatusArrays} \cup {JNull, JDict([code |-> JStr("x")]), JBool(TRUE)}

StatusReplies == {Failed(k) : k \in HttpFailures} \cup {Answered(j) : j \in StatusPayloads}

\* Whether a call with these answers gets as far as the status request.
AsksStatus(in) ==
    LET device_info == get_device_info(in.token1, in.info)
    IN  /\ Truthy(device_info) /\ device_info.t = "dict"
        /\ "online" \in DOMAIN device_info.v /\ Truthy(device_info.v.online)

\* The answers to one call; the answers that are not asked for are fixed.
CloudInputs ==
    {in \in [token1 : BOOLEAN, info : InfoReplies, token2 : BOOLEAN,
             status : StatusReplies] :
        /\ (~in.token1 => in.info = Failed("timeout"))
        /\ (~AsksStatus(in) => in.token2 /\ in.status = Failed("timeout"))
        /\ (~in.token2 => in.status = Failed("timeout"))}

Pending == [OfflineTuple EXCEPT !.state = "pending"]

NoCall == [token1 |-> FALSE, info |-> Failed("timeout"), token2 |-> TRUE,
           status |-> Failed("timeout")]

\* No call of get_device_data is being examined.
IdleCloud ==
    /\ cloudIn = NoCall
    /\ cloudOut = Pending

(***************************************************************************)
(* Schedule rows and the inputs of the schedule API.                       *)
(***************************************************************************)
DeviceIds == {"d1", "d2"}

\* The ids of the schedule rows.
SchedIds == {1}

Kinds == {"ON", "OFF"}

\* The two callers of check_and_execute_schedules (app.py:307, 991).
Callers == {"loop", "test"}

\* An invocation that has not begun.
IdleRun == [pc |-> "idle", rows |-> <<>>, now |-> [day |-> 0, minute |-> 0],
            result |-> "none"]

\* No time is counted, no registration is recorded, no bill is asked for
\* no cycle is observed and no invocation of the evaluator is taken apart.
IdleExt ==
    /\ second = 0
    /\ waited = 0
    /\ evaluatedBy = {}
    /\ readded = {}
    /\ unseen = {}
    /\ fresh = {}
    /\ kwh = 0
    /\ bill = [state |-> "pending", amount |-> 0]
    /\ inserted = [d \in DeviceIds |-> 0]
    /\ online = {}
    /\ runs = [p \in Callers |-> IdleRun]
    /\ acks = [k \in SchedIds \X Kinds |-> 0]

\* start_time / end_time texts a client sends
TimeInputs == {StrftimeHM([day |-> 0, minute |-> m]) : m \in ClockMinutes}

\* days texts a client sends
DaysInputs == {"monday", "Monday, Tuesday"}

\* The devices that schedules are attached to.
SchedDevices == {"d1"}

\* Texts a client can send that are no time and no list of weekday names,
\* and the empty text.
BadTimes == {"8am"}

BadDays == {"funday"}

Empty == ""

\* The days texts the days column can hold in the model.
DaysTexts == DaysInputs \cup BadDays

ScheduleRows ==
    [device_id : SchedDevices, start_time : TimeInputs, end_time : TimeInputs,
     days : DaysInputs, enabled : {0, 1}]

\* What can happen to one command (app.py:226-250, 261-285): the token is not
\* obtained (no POST is made), the POST is answered 200, answered with another
\* status, or raises (a timeout: the request went out).
CmdOutcomes == {"ok", "http_error", "timeout", "no_token"}

\* The outcomes in which requests.post was called.
Posted == {"ok", "http_error", "timeout"}

(***************************************************************************)
(* check_and_execute_schedules (app.py:174-290).                           *)
(***************************************************************************)
\* schedule_days = [day.strip().lower() for day in days.split(',')]
ScheduleDays(days) ==
    LET pieces == Split(days)
    IN  {Lower(Strip(pieces[i])) : i \in 1..Len(pieces)}

\* The same list for each days text of the model, computed once.
ScheduleDaysOf == [days \in DaysTexts |-> ScheduleDays(days)]

\* f"{schedule_id}_ON_{current_day}": the three parts of the key.
TrackerKey(schedule_id, kind, current_day) == <<schedule_id, kind, current_day>>

\* Mutant: the tracker is never consulted.
AlreadyExecutedNever(trk, key, current_time) == FALSE

\* 'Already executed this minute' (app.py:220-223, 255-258).
AlreadyExecuted(trk, key, current_time) ==
    key \in DOMAIN trk /\ trk[key] = current_time

\* Mutant: the SELECT has no WHERE clause.
RECURSIVE RowsEnabledOrNot(_, _, _)
RowsEnabledOrNot(scheds, devs, id) ==
    IF \A i \in SchedIds : i < id THEN <<>>
    ELSE (IF id \in DOMAIN scheds /\ scheds[id].device_id \in devs
          THEN <<id>> ELSE <<>>) \o RowsEnabledOrNot(scheds, devs, id + 1)

\* Mutant: the SELECT does not join the device table.
RECURSIVE RowsWithoutJoin(_, _, _)
RowsWithoutJoin(scheds, devs, id) ==
    IF \A i \in SchedIds : i < id THEN <<>>
    ELSE (IF id \in DOMAIN scheds /\ scheds[id].enabled = 1
          THEN <<id>> ELSE <<>>) \o RowsWithoutJoin(scheds, devs, id + 1)

\* The rows of the SELECT ... JOIN devices ... WHERE enabled = 1, in id order.
RECURSIVE EnabledRows(_, _, _)
EnabledRows(scheds, devs, id) ==
    IF \A i \in SchedIds : i < id THEN <<>>
    ELSE (IF id \in DOMAIN scheds /\ scheds[id].enabled = 1
             /\ scheds[id].device_id \in devs
          THEN <<id>> ELSE <<>>) \o EnabledRows(scheds, devs, id + 1)

\* The ids of those rows.
EnabledRowSet ==
    LET rows == EnabledRows(schedules, devices, 1)
    IN  {rows[i] : i \in 1..Len(rows)}

\* Mutant: the weekday test of app.py:208 is missing.
TransitionAnyDay(row, current_time, current_day) ==
    IF current_time = row.start_time THEN "ON"
    ELSE IF current_time = row.end_time THEN "OFF"
    ELSE "none"

\* Mutant: the end time is matched against the weekday before the current one.
TransitionOffDayBefore(row, current_time, current_day) ==
    LET before == CASE current_day = "monday" -> "sunday"
                    [] current_day = "tuesday" -> "monday"
                    [] current_day = "wednesday" -> "tuesday"
                    [] OTHER -> "wednesday"
    IN  IF current_day \in ScheduleDaysOf[row.days] /\ current_time = row.start_time
        THEN "ON"
        ELSE IF before \in ScheduleDaysOf[row.days] /\ current_time = row.end_time
        THEN "OFF"
        ELSE "none"

\* The transition of one row at this moment: "ON", "OFF" or "none"
\* (app.py:208, 218, 253: the OFF test is the elif of the ON test).
Transition(row, current_time, current_day) ==
    IF current_day \notin ScheduleDaysOf[row.days] THEN "none"
    ELSE IF current_time = row.start_time THEN "ON"
    ELSE IF current_time = row.end_time THEN "OFF"
    ELSE "none"

\* Mutant: the tracker entry is written under the key of the other transition.
MarkExecutedOtherKey(trk, key, current_time, result) ==
    IF result = "ok"
    THEN (<<key[1], IF key[2] = "ON" THEN "OFF" ELSE "ON", key[3]>> :> current_time) @@ trk
    ELSE trk

\* Mutant: the tracker entry is written whatever the command came to.
MarkExecutedAlways(trk, key, current_time, result) == (key :> current_time) @@ trk

\* One command: the tracker entry is written after a 200 answer only.
MarkExecuted(trk, key, current_time, result) ==
    IF result = "ok" THEN (key :> current_time) @@ trk ELSE trk

\* The for loop over the rows (app.py:203-285). outs gives the outcome of the
\* command of each row. The result is the tracker and the commands attempted.
RECURSIVE ScheduleLoop(_, _, _, _, _, _)
ScheduleLoop(rows, scheds, current_time, current_day, trk, outs) ==
    IF rows = <<>> THEN [tracker |-> trk, issued |-> {}]
    ELSE
        LET id   == Head(rows)
            kind == Transition(scheds[id], current_time, current_day)
            key  == TrackerKey(id, kind, current_day)
            skip == kind = "none" \/ AlreadyExecuted(trk, key, current_time)
            trk2 == IF skip THEN trk
                    ELSE MarkExecuted(trk, key, current_time, outs[id])
            rest == ScheduleLoop(Tail(rows), scheds, current_time, current_day,
                                 trk2, outs)
        IN  [tracker |-> rest.tracker,
             issued  |-> rest.issued \cup
                         (IF skip THEN {}
                          ELSE {[id |-> id, kind |-> kind, outcome |-> outs[id]]})]

\* The whole function: dbOK is whether the connection and the SELECT succeed;
\* when they raise, the outer except (app.py:287) logs and returns.
Evaluate(now, scheds, devs, trk, outs, dbOK) ==
    IF ~dbOK THEN [tracker |-> trk, issued |-> {}]
    ELSE ScheduleLoop(EnabledRows(scheds, devs, 1), scheds, StrftimeHM(now),
                      Lower(StrftimeA(now)), trk, outs)

\* The <<id, kind>> of the commands of issued that ended in one of outcomes.
Commands(issued, outcomes) ==
    {<<c.id, c.kind>> : c \in {x \in issued : x.outcome \in outcomes}}

\* One invocation, by the background loop (app.py:307) or by
\* /api/schedules/test (app.py:991), with these command outcomes.
RunEvaluator(outs, dbOK) ==
    LET r == Evaluate(clock, schedules, devices, tracker, outs, dbOK)
    IN  /\ tracker' = r.tracker
        /\ lastRun' = [seq |-> 1 - lastRun.seq, db |-> dbOK, issued |-> r.issued]
        /\ sentToday' = sentToday \cup Commands(r.issued, Posted)
        /\ ackDay' = [p \in SchedIds \X Kinds |->
                         IF p \in Commands(r.issued, {"ok"}) THEN clock.day
                         ELSE ackDay[p]]
        /\ UNCHANGED <<clock, devices, schedules>>

check_and_execute_schedules ==
    \E outs \in [SchedIds -> CmdOutcomes], dbOK \in BOOLEAN : RunEvaluator(outs, dbOK)

\* The observers when the clock moves from one minute to another.
ObserveClock ==
    /\ lastRun' = [seq |-> 0, db |-> TRUE, issued |-> {}]
    /\ sentToday' = IF clock'.day = clock.day THEN sentToday ELSE {}
    /\ UNCHANGED ackDay

\* Time passes, to a later minute at which the program is observed.
AdvanceClock ==
    /\ \E t \in ClockPoints : Before(clock, t) /\ clock' = t
    /\ ObserveClock
    /\ UNCHANGED <<devices, schedules, tracker>>

\* update_schedule (app.py:909-935), the toggle: data holds 'enabled' only.
update_schedule_enabled ==
    \E id \in DOMAIN schedules, enabled \in BOOLEAN :
        /\ schedules' = [schedules EXCEPT ![id].enabled = IF enabled THEN 1 ELSE 0]
        /\ UNCHANGED <<clock, devices, tracker, lastRun, sentToday, ackDay>>

\* update_schedule, the full update of row id with these texts. Nothing in
\* the handler looks at what the texts are.
update_schedule_fields(id, start_time, end_time, days) ==
    /\ schedules' = [schedules EXCEPT ![id].start_time = start_time,
                                      ![id].end_time = end_time,
                                      ![id].days = days]
    /\ ackDay' = [p \in SchedIds \X Kinds |-> IF p[1] = id THEN -1 ELSE ackDay[p]]
    /\ UNCHANGED <<clock, devices, tracker, lastRun, sentToday>>

\* update_schedule, the full update: start_time, end_time and days are set.
update_schedule_full ==
    \E id \in DOMAIN schedules, start_time \in TimeInputs, end_time \in TimeInputs,
       days \in DaysInputs :
        update_schedule_fields(id, start_time, end_time, days)

\* The id of the next row: the column is INTEGER PRIMARY KEY AUTOINCREMENT
\* and no row of the model is deleted.
NextScheduleId(scheds) == Cardinality(DOMAIN scheds) + 1

\* all([schedule_name, start_time, end_time, days]) (app.py:883)
AllFields(schedule_name, start_time, end_time, days) ==
    schedule_name # Empty /\ start_time # Empty /\ end_time # Empty /\ days # Empty

\* create_schedule (app.py:873-907): 400 when a field is empty, 500 when the
\* database raises, 404 when the device is not registered; else the row is
\* inserted, enabled.
create_schedule(device_id, schedule_name, start_time, end_time, days, dbOK) ==
    IF /\ AllFields(schedule_name, start_time, end_time, days)
       /\ dbOK
       /\ device_id \in devices
       /\ NextScheduleId(schedules) \in SchedIds
    THEN /\ schedules' =
              [id \in DOMAIN schedules \cup {NextScheduleId(schedules)} |->
                  IF id \in DOMAIN schedules THEN schedules[id]
                  ELSE [device_id |-> device_id, start_time |-> start_time,
                        end_time |-> end_time, days |-> days, enabled |-> 1]]
         /\ UNCHANGED <<clock, devices, tracker, lastRun, sentToday, ackDay>>
    ELSE UNCHANGED schedVars

(***************************************************************************)
(* The device registry: add_device and delete_device (app.py:444-501).     *)
(***************************************************************************)
\* Mutant: the readings of the device are kept.
RowsKept(rows, device_id) == rows

\* DELETE FROM readings WHERE device_id = ?
RowsWithout(rows, device_id) == {r \in rows : r.device_id # device_id}

\* delete_device, answered with success. Both DELETE statements are one
\* transaction; it waits for the write lock while the loop's connection
\* holds uncommitted rows.
delete_device_ok(device_id) ==
    /\ device_id \in devices
    /\ txn = {}
    /\ readings' = RowsWithout(readings, device_id)
    /\ devices' = devices \ {device_id}
    /\ deleted' = deleted \cup {device_id}
    /\ UNCHANGED <<evalVars, txn, loopVars, deletedBefore>>

\* delete_device, answered 404 (no such device) or 500 (an exception: the
\* database is locked or cannot be opened): nothing is written.
delete_device_refused(device_id) ==
    /\ UNCHANGED <<schedVars, pollVars>>

delete_device(device_id) ==
    \/ delete_device_ok(device_id)
    \/ delete_device_refused(device_id)

\* add_device: 400 when a field is missing, the token test fails or the
\* device_id exists (IntegrityError of the UNIQUE column), else the row is
\* inserted and committed.
add_device(device_id, fieldsOK, tokenOK) ==
    IF fieldsOK /\ tokenOK /\ device_id \notin devices /\ txn = {}
    THEN /\ devices' = devices \cup {device_id}
         /\ deleted' = deleted \ {device_id}
         /\ deletedBefore' = deletedBefore \ {device_id}
         /\ UNCHANGED <<evalVars, readings, txn, loopVars>>
    ELSE UNCHANGED <<schedVars, pollVars>>

(***************************************************************************)
(* collect_data_periodically (app.py:292-368).                             *)
(***************************************************************************)
\* What the cloud answers to the loop's calls of get_device_data: an online
\* device that is switched on, one that is switched off, an offline device,
\* no token, and a device information result that is no object.
OnlineInfo == Answered(JDict([online |-> JBool(TRUE)]))

PollCloudInputs ==
    {[token1 |-> TRUE, info |-> OnlineInfo, token2 |-> TRUE,
      status |-> Answered(JList(<<Point("switch_1", JBool(TRUE)),
                                  Point("cur_power", JNum(153))>>))],
     [token1 |-> TRUE, info |-> OnlineInfo, token2 |-> TRUE,
      status |-> Answered(JList(<<Point("cur_voltage", JNum(2305))>>))],
     [token1 |-> TRUE, info |-> Answered(JDict([online |-> JBool(FALSE)])),
      token2 |-> TRUE, status |-> Failed("timeout")],
     NoCall,
     [token1 |-> TRUE, info |-> Answered(JList(<<JStr("plug")>>)),
      token2 |-> TRUE, status |-> Failed("timeout")]}

SecondsPerMinute == 60

MinutesPerHour == 60

\* datetime.now().minute
NowMinute(now) == now.minute % MinutesPerHour

\* int(time.time()) in the second sec of the minute of the clock.
Epoch(now, sec) == (now.day * MinutesPerDay + now.minute) * SecondsPerMinute + sec

\* The values time.time() can give during the minute of the clock. The wall
\* clock can be set back, so that a later reading can give an earlier value.
TsValues(now) == {Epoch(now, sec) : sec \in 0..MaxSecond}

\* Mutant: the latch is not looked at.
LatchAlwaysOpen(current_minute, last) == TRUE

\* if current_minute != last_schedule_check_minute (app.py:306)
LatchOpen(current_minute, last) == current_minute # last

\* The lists a SELECT without ORDER BY can return for the device table.
Orderings(devs) ==
    {l \in [1..Cardinality(devs) -> devs] :
        \A i, j \in 1..Cardinality(devs) : i # j => l[i] # l[j]}

\* The row of the INSERT (app.py:341-344).
ReadingRow(device_id, stamp, data) ==
    [device_id |-> device_id, ts |-> stamp, voltage |-> data.voltage,
     current |-> data.current, power |-> data.power]

\* UNIQUE(device_id, ts)
SameKey(r1, r2) == r1.device_id = r2.device_id /\ r1.ts = r2.ts

\* Mutant: the row is inserted whatever the table holds.
InsertAlways(rows, row) == rows \cup {row}

\* INSERT OR IGNORE INTO readings
InsertOrIgnore(rows, row) ==
    IF \E r \in rows : SameKey(r, row) THEN rows ELSE rows \cup {row}

\* SELECT 1 FROM devices WHERE device_id = ?
DeviceExists(device_id) == device_id \in devices

\* The for loop goes on with the device after the i-th of n.
AfterDevice(i, n) ==
    [pc |-> IF i < n THEN "check1" ELSE "close", idx |-> i + 1]

\* Mutant: the exception of one device ends the cycle.
AfterDeviceErrorAborts(i, n) == [pc |-> "sleep", idx |-> i]

\* The except clauses of the device loop (app.py:356-359) log and go on.
AfterDeviceError(i, n) == AfterDevice(i, n)

\* Mutant: no handler around the cycle, the exception ends the loop.
AfterCycleErrorEndsLoop == "ended"

\* The except clauses around the cycle (app.py:363-366) log, and the loop
\* goes to its sleep.
AfterCycleError == "sleep"

NoOutcome == [d \in DeviceIds |-> "none"]

\* The loop is done with the current device, having logged line for it.
Finish(line, next) ==
    /\ outcome' = [outcome EXCEPT ![devlist[idx]] = line]
    /\ pc' = next.pc
    /\ idx' = next.idx
    /\ fetched' = Pending
    /\ ts' = 0
    /\ UNCHANGED <<devlist, last_schedule_check_minute, loopErr>>

FinishDevice(line) == Finish(line, AfterDevice(idx, Len(devlist)))

FailDevice == Finish("error", AfterDeviceError(idx, Len(devlist)))

\* Mutant: the loop keeps the list it has.
ListDevicesStale(devs, old) == {old}

\* 'Fetch devices inside the try block to get fresh list each time'
\* (app.py:312-314): the SELECT on the device table of every cycle.
ListDevices(devs, old) == Orderings(devs)

\* The head of a cycle (app.py:300-319): the schedule check behind its
\* latch, the connection, the device list.
PollCycleStart ==
    /\ pc = "top"
    /\ IF LatchOpen(NowMinute(clock), last_schedule_check_minute)
       THEN /\ check_and_execute_schedules
            /\ last_schedule_check_minute' = NowMinute(clock)
       ELSE UNCHANGED <<schedVars, last_schedule_check_minute>>
    /\ \E fail \in {"none", "connect", "list"}, order \in ListDevices(devices, devlist) :
        /\ loopErr' = fail
        /\ devlist' = IF fail = "none" THEN order ELSE <<>>
        /\ pc' = CASE fail = "connect" -> AfterCycleError
                   [] fail = "list" -> "sleep"
                   [] OTHER -> IF order = <<>> THEN "close" ELSE "check1"
    /\ idx' = 1
    /\ outcome' = NoOutcome
    /\ deletedBefore' = deleted
    /\ UNCHANGED <<readings, txn, fetched, ts, deleted>>

\* 'Check if device still exists before processing' (app.py:324-331).
PollCheck1 ==
    /\ pc = "check1"
    /\ \E raises \in BOOLEAN :
        IF raises THEN FailDevice
        ELSE IF ~DeviceExists(devlist[idx]) THEN FinishDevice("gone")
        ELSE /\ pc' = "fetch"
             /\ UNCHANGED <<devlist, idx, fetched, ts, last_schedule_check_minute,
                            outcome, loopErr>>
    /\ UNCHANGED <<schedVars, readings, txn, deleted, deletedBefore>>

\* Mutant: a reading is logged for every device.
IsOnlineAlways(data) == TRUE

\* if is_online: (app.py:336)
IsOnline(data) == Truthy(data.is_online)

\* get_device_data and the test of is_online (app.py:333-337, 353-354).
PollFetchFrom(inputs) ==
    /\ pc = "fetch"
    /\ \E in \in inputs, stamp \in TsValues(clock) :
        LET data == get_device_data(in)
        IN  IF data.state = "raised" THEN FailDevice
            ELSE IF ~IsOnline(data) THEN FinishDevice("offline")
            ELSE /\ fetched' = data
                 /\ ts' = stamp
                 /\ pc' = "check2"
                 /\ UNCHANGED <<devlist, idx, last_schedule_check_minute, outcome,
                                loopErr>>
    /\ UNCHANGED <<schedVars, readings, txn, deleted, deletedBefore>>

PollFetch == PollFetchFrom(PollCloudInputs)

\* 'Double-check device still exists before inserting' (app.py:340, 351-352).
PollCheck2 ==
    /\ pc = "check2"
    /\ \E raises \in BOOLEAN :
        IF raises THEN FailDevice
        ELSE IF ~DeviceExists(devlist[idx]) THEN FinishDevice("deleted")
        ELSE /\ pc' = "insert"
             /\ UNCHANGED <<devlist, idx, fetched, ts, last_schedule_check_minute,
                            outcome, loopErr>>
    /\ UNCHANGED <<schedVars, readings, txn, deleted, deletedBefore>>

\* The INSERT OR IGNORE (app.py:341-344). PRAGMA foreign_keys is never set,
\* so that the FOREIGN KEY of the table is not enforced.
PollInsert ==
    /\ pc = "insert"
    /\ \E raises \in BOOLEAN :
        IF raises THEN FailDevice /\ UNCHANGED txn
        ELSE /\ txn' = InsertOrIgnore(readings \cup txn,
                                      ReadingRow(devlist[idx], ts, fetched)) \ readings
             /\ pc' = "commit"
             /\ UNCHANGED <<devlist, idx, fetched, ts, last_schedule_check_minute,
                            outcome, loopErr>>
    /\ UNCHANGED <<schedVars, readings, deleted, deletedBefore>>

\* conn.commit() and the log line (app.py:345-350).
PollCommit ==
    /\ pc = "commit"
    /\ \E raises \in BOOLEAN :
        IF raises THEN FailDevice /\ UNCHANGED <<readings, txn>>
        ELSE /\ readings' = readings \cup txn
             /\ txn' = {}
             /\ FinishDevice("stored")
    /\ UNCHANGED <<schedVars, deleted, deletedBefore>>

\* conn.close() (app.py:361): rows not committed are rolled back.
PollClose ==
    /\ pc = "close"
    /\ txn' = {}
    /\ pc' = "sleep"
    /\ UNCHANGED <<schedVars, readings, devlist, idx, fetched, ts,
                   last_schedule_check_minute, outcome, loopErr, deleted,
                   deletedBefore>>

\* time.sleep (app.py:318, 368) ends and the loop starts over.
PollSleep ==
    /\ pc = "sleep"
    /\ pc' = "top"
    /\ UNCHANGED <<schedVars, readings, txn, devlist, idx, fetched, ts,
                   last_schedule_check_minute, outcome, loopErr, deleted,
                   deletedBefore>>

\* One step of the thread of collect_data_periodically.
PollStep ==
    /\ \/ PollCycleStart
       \/ PollCheck1
       \/ PollFetch
       \/ PollCheck2
       \/ PollInsert
       \/ PollCommit
       \/ PollClose
       \/ PollSleep
    /\ UNCHANGED <<cloudVars, extVars>>

\* The loop has not started a cycle and the tables of readings are empty.
IdlePoll ==
    /\ readings = {}
    /\ txn = {}
    /\ pc = "top"
    /\ devlist = <<>>
    /\ idx = 1
    /\ fetched = Pending
    /\ ts = 0
    /\ last_schedule_check_minute = -1
    /\ outcome = NoOutcome
    /\ loopErr = "none"
    /\ deleted = {}
    /\ deletedBefore = {}

InitObservers ==
    /\ lastRun = [seq |-> 0, db |-> TRUE, issued |-> {}]
    /\ sentToday = {}
    /\ ackDay = [p \in SchedIds \X Kinds |-> -1]

Init ==
    /\ clock = [day |-> 0, minute |-> 480]
    /\ devices = SchedDevices
    /\ schedules \in [SchedIds -> {r \in ScheduleRows : r.enabled = 1}]
    /\ tracker = <<>>
    /\ InitObservers
    /\ IdleCloud
    /\ IdlePoll
    /\ IdleExt

Next ==
    /\ \/ check_and_execute_schedules
       \/ AdvanceClock
       \/ update_schedule_enabled
       \/ update_schedule_full
    /\ UNCHANGED <<cloudVars, pollVars, extVars>>

Spec == Init /\ [][Next]_vars

(***************************************************************************)
(* The scenario of one schedule, 08:00 to 18:00 on Mondays, evaluated once *)
(* in every minute of a Monday and of the Tuesday after it, with the cloud *)
(* answering every command with 200.                                       *)
(***************************************************************************)
\* The last day of the scenario (day 0 is the Monday).
LastScenarioDay == 1

MondaySchedule ==
    [device_id |-> "d1", start_time |-> "08:00", end_time |-> "18:00",
     days |-> "monday", enabled |-> 1]

InitMonTue ==
    /\ clock = [day |-> 0, minute |-> 0]
    /\ devices = SchedDevices
    /\ schedules = [id \in SchedIds |-> MondaySchedule]
    /\ tracker = <<>>
    /\ InitObservers
    /\ IdleCloud
    /\ IdlePoll
    /\ IdleExt

\* The evaluation of this minute.
EvaluateMinute ==
    /\ lastRun.seq = 0
    /\ RunEvaluator([id \in SchedIds |-> "ok"], TRUE)

\* The next minute begins.
NextMinute ==
    /\ lastRun.seq = 1
    /\ ~(clock.day = LastScenarioDay /\ clock.minute = MinutesPerDay - 1)
    /\ clock' = IF clock.minute = MinutesPerDay - 1
                THEN [day |-> clock.day + 1, minute |-> 0]
                ELSE [clock EXCEPT !.minute = @ + 1]
    /\ ObserveClock
    /\ UNCHANGED <<devices, schedules, tracker>>

NextMonTue ==
    (EvaluateMinute \/ NextMinute) /\ UNCHANGED <<cloudVars, pollVars, extVars>>

SpecMonTue == InitMonTue /\ [][NextMonTue]_vars

(***************************************************************************)
(* The scenario of one schedule that spans midnight, 22:00 to 02:00,       *)
(* evaluated once in every minute from a Monday on, with the cloud         *)
(* answering every command with 200.                                       *)
(***************************************************************************)
NightSchedule(days) ==
    [device_id |-> "d1", start_time |-> "22:00", end_time |-> "02:00",
     days |-> days, enabled |-> 1]

InitNight ==
    /\ clock = [day |-> 0, minute |-> 0]
    /\ devices = SchedDevices
    /\ \E days \in DaysInputs : schedules = [id \in SchedIds |-> NightSchedule(days)]
    /\ tracker = <<>>
    /\ InitObservers
    /\ IdleCloud
    /\ IdlePoll
    /\ IdleExt

SpecNight == InitNight /\ [][NextMonTue]_vars

(***************************************************************************)
(* The schedule API and the device API beside the evaluator, within one    *)
(* minute of a Monday or of a Tuesday.                                     *)
(***************************************************************************)
\* The texts of the requests.
ApiTimes == TimeInputs \cup BadTimes

InitApi ==
    /\ clock \in [day : {0, 1}, minute : {480}]
    /\ devices = DeviceIds
    /\ schedules = <<>>
    /\ tracker = <<>>
    /\ InitObservers
    /\ IdleCloud
    /\ IdlePoll
    /\ IdleExt

\* A request or a run of the evaluator: the loop is not looked at.
ApiAction(A) == A /\ UNCHANGED <<cloudVars, tickVars, unseen, fresh, billVars, obsVars>>

\* The registrations after a deletion are recorded.
ApiDeleteDevice(d) ==
    /\ delete_device_ok(d)
    /\ readded' = readded \ {d}

ApiAddDevice(d) ==
    /\ add_device(d, TRUE, TRUE)
    /\ readded' = IF d \in deleted THEN readded \cup {d} ELSE readded

NextApi ==
    \/ ApiAction(check_and_execute_schedules /\ UNCHANGED <<pollVars, readded>>)
    \/ ApiAction(update_schedule_enabled /\ UNCHANGED <<pollVars, readded>>)
    \/ \E id \in DOMAIN schedules, start_time \in ApiTimes, end_time \in ApiTimes,
          days \in DaysTexts :
           ApiAction(update_schedule_fields(id, start_time, end_time, days)
                         /\ UNCHANGED <<pollVars, readded>>)
    \/ /\ NextScheduleId(schedules) \in SchedIds
       /\ \E device_id \in SchedDevices, schedule_name \in {Empty, "heater"},
             start_time \in ApiTimes \cup {Empty}, end_time \in ApiTimes,
             days \in DaysTexts, dbOK \in BOOLEAN :
              ApiAction(create_schedule(device_id, schedule_name, start_time,
                                        end_time, days, dbOK)
                            /\ UNCHANGED <<pollVars, readded>>)
    \/ \E d \in DeviceIds : ApiAction(ApiDeleteDevice(d))
    \/ \E d \in DeviceIds : ApiAction(ApiAddDevice(d))

SpecApi == InitApi /\ [][NextApi]_vars

(***************************************************************************)
(* The poll loop in wall-clock time, beside /api/schedules/test. The time  *)
(* is counted in steps of TickUnit seconds and passes while the loop is in *)
(* a call that can take time. Two devices are registered, the cloud gives  *)
(* no device as online, and the schedule is the one of Mondays 08:00.      *)
(***************************************************************************)
TickUnit == 5

\* timeout=10 of every request (app.py:71, 101, 147)
RequestTimeout == 10

\* time.sleep(15) (app.py:368) and time.sleep(60) (app.py:318)
SleepSeconds == 15

ListRetrySeconds == 60

\* The default time sqlite3.connect gives a statement to wait for a lock.
BusySeconds == 5

\* The longest time the loop can spend in the call it stands at: the token
\* and the device information request of get_device_data for a device that
\* is not online, a SELECT that waits for a lock, a sleep.
Budget ==
    CASE pc = "fetch" -> 2 * RequestTimeout
      [] pc = "check1" -> BusySeconds
      [] pc = "sleep" -> IF loopErr = "list" THEN ListRetrySeconds ELSE SleepSeconds
      [] OTHER -> 0

\* The answers of a cloud that reports no device as online.
OfflineCloudInputs ==
    {in \in PollCloudInputs : ~Truthy(get_device_data(in).is_online)}

FirstTick == [day |-> 0, minute |-> 479]

InitTick ==
    /\ clock = FirstTick
    /\ devices = DeviceIds
    /\ schedules = [id \in SchedIds |-> MondaySchedule]
    /\ tracker = <<>>
    /\ InitObservers
    /\ IdleCloud
    /\ IdlePoll
    /\ IdleExt

\* TickUnit seconds pass while the loop is in its call.
Elapse ==
    /\ waited + TickUnit <= Budget
    /\ waited' = waited + TickUnit
    /\ second' = (second + TickUnit) % SecondsPerMinute
    /\ IF second + TickUnit = SecondsPerMinute
       THEN /\ clock.minute < FirstTick.minute + MaxTicks
            /\ clock' = [clock EXCEPT !.minute = @ + 1]
            /\ ObserveClock
            /\ evaluatedBy' = {}
       ELSE UNCHANGED <<clock, lastRun, sentToday, ackDay, evaluatedBy>>
    /\ UNCHANGED <<devices, schedules, tracker, cloudVars, pollVars, joinVars, billVars, obsVars>>

\* A step of the loop: the call it was in has returned. A sleep returns
\* when its time is over.
TickLoop(A) ==
    /\ pc = "sleep" => waited = Budget
    /\ A
    /\ waited' = 0
    /\ evaluatedBy' = IF lastRun'.seq # lastRun.seq THEN evaluatedBy \cup {"loop"}
                      ELSE evaluatedBy
    /\ UNCHANGED <<second, cloudVars, joinVars, billVars, obsVars>>

\* test_schedules (app.py:951-995): the handler reads the schedules, then
\* calls check_and_execute_schedules; when its SELECT raises it answers 500
\* without the call.
test_schedules(selectOK) ==
    /\ IF selectOK
       THEN /\ check_and_execute_schedules
            /\ evaluatedBy' = evaluatedBy \cup {"test"}
       ELSE UNCHANGED <<schedVars, evaluatedBy>>
    /\ UNCHANGED <<second, waited, cloudVars, pollVars, joinVars, billVars, obsVars>>

NextTick ==
    \/ TickLoop(PollCycleStart)
    \/ TickLoop(PollCheck1)
    \/ TickLoop(PollFetchFrom(OfflineCloudInputs))
    \/ TickLoop(PollClose)
    \/ TickLoop(PollSleep)
    \/ Elapse
    \/ \E selectOK \in BOOLEAN : test_schedules(selectOK)

SpecTick == InitTick /\ [][NextTick]_vars

\* The state of the rest of the program while the cloud client is examined.
IdleSched ==
    /\ clock = [day |-> 0, minute |-> 480]
    /\ devices = SchedDevices
    /\ schedules = <<>>
    /\ tracker = <<>>
    /\ InitObservers

InitCloud ==
    /\ cloudIn \in CloudInputs
    /\ cloudOut = Pending
    /\ IdleSched
    /\ IdlePoll
    /\ IdleExt

\* The call of get_device_data with the answers cloudIn.
CallGetDeviceData ==
    /\ cloudOut = Pending
    /\ cloudOut' = get_device_data(cloudIn)
    /\ UNCHANGED <<cloudIn, schedVars, pollVars, extVars>>

NextCloud == CallGetDeviceData

SpecCloud == InitCloud /\ [][NextCloud]_vars

\* C8 as stated: get_device_data never ends with an exception, and whenever
\* the is_online it returns is false the tuple is 0, 0, 0, False.
C8_NeverRaises ==
    /\ cloudOut.state # "raised"
    /\ (cloudOut.state = "returned" /\ ~Truthy(cloudOut.is_online))
           => cloudOut = OfflineTuple

(***************************************************************************)
(* The poll loop beside the device API. There is no schedule row and the   *)
(* clock stays in its minute.                                              *)
(***************************************************************************)
InitPoll ==
    /\ clock = [day |-> 0, minute |-> 480]
    /\ devices \in SUBSET DeviceIds
    /\ schedules = <<>>
    /\ tracker = <<>>
    /\ InitObservers
    /\ IdleCloud
    /\ IdlePoll
    /\ IdleExt

\* A step of the loop, or a request to the device API.
PollAction(A) == A /\ UNCHANGED <<cloudVars, extVars>>

NextPoll ==
    \/ PollAction(PollCycleStart)
    \/ PollAction(PollCheck1)
    \/ PollAction(PollFetch)
    \/ PollAction(PollCheck2)
    \/ PollAction(PollInsert)
    \/ PollAction(PollCommit)
    \/ PollAction(PollClose)
    \/ PollAction(PollSleep)
    \/ \E d \in DeviceIds : PollAction(delete_device_ok(d))
    \/ \E d \in DeviceIds : PollAction(delete_device_refused(d))
    \/ \E d \in DeviceIds, fieldsOK \in BOOLEAN, tokenOK \in BOOLEAN :
           PollAction(add_device(d, fieldsOK, tokenOK))

SpecPoll == InitPoll /\ [][NextPoll]_vars

\* The loop's thread keeps running: every call it makes returns or raises
\* (the requests have a timeout of 10 s, sqlite its busy timeout).
SpecPollFair == SpecPoll /\ WF_vars(PollStep)

(***************************************************************************)
(* The poll loop beside the device API, with two observers: unseen holds   *)
(* the devices add_device has registered since the loop last read the      *)
(* device table, fresh the devices that were unseen when it last read it.  *)
(***************************************************************************)
JoinLoop(A) == A /\ UNCHANGED <<cloudVars, tickVars, readded, billVars, obsVars>>

JoinCycleStart ==
    /\ PollCycleStart
    /\ IF loopErr' = "none"
       THEN fresh' = unseen /\ unseen' = {}
       ELSE UNCHANGED <<unseen, fresh>>

JoinAddDevice(d, fieldsOK, tokenOK) ==
    /\ add_device(d, fieldsOK, tokenOK)
    /\ unseen' = unseen \cup (devices' \ devices)
    /\ UNCHANGED fresh

JoinDeleteDevice(d) ==
    /\ delete_device_ok(d)
    /\ unseen' = unseen \ {d}
    /\ UNCHANGED fresh

NextJoin ==
    \/ JoinLoop(JoinCycleStart)
    \/ JoinLoop(PollCheck1 /\ UNCHANGED <<unseen, fresh>>)
    \/ JoinLoop(PollFetch /\ UNCHANGED <<unseen, fresh>>)
    \/ JoinLoop(PollCheck2 /\ UNCHANGED <<unseen, fresh>>)
    \/ JoinLoop(PollInsert /\ UNCHANGED <<unseen, fresh>>)
    \/ JoinLoop(PollCommit /\ UNCHANGED <<unseen, fresh>>)
    \/ JoinLoop(PollClose /\ UNCHANGED <<unseen, fresh>>)
    \/ JoinLoop(PollSleep /\ UNCHANGED <<unseen, fresh>>)
    \/ \E d \in DeviceIds : JoinLoop(JoinDeleteDevice(d))
    \/ \E d \in DeviceIds, fieldsOK \in BOOLEAN, tokenOK \in BOOLEAN :
           JoinLoop(JoinAddDevice(d, fieldsOK, tokenOK))

SpecJoin == InitPoll /\ [][NextJoin]_vars

(***************************************************************************)
(* The poll loop beside the device API, with two observers of a cycle:     *)
(* inserted counts the rows the cycle has added to what its connection     *)
(* sees, device by device, and online holds the devices for which          *)
(* get_device_data has returned a true is_online in the cycle. The        *)
(* requests to the device API are those with complete fields and a token   *)
(* that is obtained: a request refused for these writes nothing.           *)
(***************************************************************************)
\* The rows of device d that this step adds.
RowsAdded(d) ==
    {r \in (readings' \cup txn') \ (readings \cup txn) : r.device_id = d}

RowObserve ==
    IF pc = "top" /\ pc' # "top"
    THEN /\ inserted' = [d \in DeviceIds |-> 0]
         /\ online' = {}
    ELSE /\ inserted' = [d \in DeviceIds |-> inserted[d] + Cardinality(RowsAdded(d))]
         /\ online' = IF /\ pc = "fetch"
                         /\ fetched'.state = "returned"
                         /\ Truthy(fetched'.is_online)
                      THEN online \cup {devlist[idx]}
                      ELSE online

RowAction(A) ==
    A /\ RowObserve /\ UNCHANGED <<cloudVars, tickVars, joinVars, billVars, raceVars>>

NextRows ==
    \/ RowAction(PollCycleStart)
    \/ RowAction(PollCheck1)
    \/ RowAction(PollFetch)
    \/ RowAction(PollCheck2)
    \/ RowAction(PollInsert)
    \/ RowAction(PollCommit)
    \/ RowAction(PollClose)
    \/ RowAction(PollSleep)
    \/ \E d \in DeviceIds : RowAction(delete_device_ok(d))
    \/ \E d \in DeviceIds : RowAction(add_device(d, TRUE, TRUE))

SpecRows == InitPoll /\ [][NextRows]_vars

(***************************************************************************)
(* Two invocations of check_and_execute_schedules in one minute, one of    *)
(* the background loop and one of /api/schedules/test, each in its thread. *)
(* No lock is taken (app.py:172-290): the test of the tracker, the command *)
(* and the write of the tracker are steps of their own, and the steps of   *)
(* the two invocations interleave.                                         *)
(***************************************************************************)
InitRace ==
    /\ clock \in [day : {0, 1}, minute : ClockMinutes]
    /\ devices = SchedDevices
    /\ schedules \in [SchedIds -> ScheduleRows]
    /\ tracker = <<>>
    /\ InitObservers
    /\ IdleCloud
    /\ IdlePoll
    /\ IdleExt

\* The locals of invocation p at the row it stands at.
RaceTime(p) == StrftimeHM(runs[p].now)

RaceDay(p) == Lower(StrftimeA(runs[p].now))

RaceKind(p) == Transition(schedules[Head(runs[p].rows)], RaceTime(p), RaceDay(p))

RaceKey(p) == TrackerKey(Head(runs[p].rows), RaceKind(p), RaceDay(p))

\* The for loop of invocation p goes on with its next row, or returns.
NextRow(p) ==
    [runs[p] EXCEPT !.rows = Tail(@),
                    !.pc = IF Tail(runs[p].rows) = <<>> THEN "done" ELSE "check",
                    !.result = "none"]

\* The invocation begins: the clock is read and the rows are selected
\* (app.py:178-200); when the connection or the SELECT raises it returns.
RaceBegin(p, dbOK) ==
    /\ runs[p].pc = "idle"
    /\ LET rows == IF dbOK THEN EnabledRows(schedules, devices, 1) ELSE <<>>
       IN  runs' = [runs EXCEPT ![p] = [pc |-> IF rows = <<>> THEN "done" ELSE "check",
                                        rows |-> rows, now |-> clock,
                                        result |-> "none"]]
    /\ UNCHANGED <<schedVars, acks>>

\* The tests of the weekday, of the times and of the tracker
\* (app.py:208, 218-223, 253-258).
RaceCheck(p) ==
    /\ runs[p].pc = "check"
    /\ runs' = [runs EXCEPT ![p] =
                   IF \/ RaceKind(p) = "none"
                      \/ AlreadyExecuted(tracker, RaceKey(p), RaceTime(p))
                   THEN NextRow(p)
                   ELSE [runs[p] EXCEPT !.pc = "send"]]
    /\ UNCHANGED <<schedVars, acks>>

\* get_token and requests.post (app.py:226-240, 261-275).
RaceSend(p, out) ==
    /\ runs[p].pc = "send"
    /\ runs' = [runs EXCEPT ![p] = [@ EXCEPT !.pc = "write", !.result = out]]
    /\ acks' = IF out = "ok"
               THEN [acks EXCEPT ![<<Head(runs[p].rows), RaceKind(p)>>] = @ + 1]
               ELSE acks
    /\ UNCHANGED schedVars

\* if response.status_code == 200: the tracker is written
\* (app.py:242-250, 277-285).
RaceWrite(p) ==
    /\ runs[p].pc = "write"
    /\ tracker' = MarkExecuted(tracker, RaceKey(p), RaceTime(p), runs[p].result)
    /\ runs' = [runs EXCEPT ![p] = NextRow(p)]
    /\ UNCHANGED <<clock, devices, schedules, lastRun, sentToday, ackDay, acks>>

RaceAction(A) ==
    A /\ UNCHANGED <<cloudVars, pollVars, tickVars, joinVars, billVars, rowVars>>

NextRace ==
    \/ \E p \in Callers, dbOK \in BOOLEAN : RaceAction(RaceBegin(p, dbOK))
    \/ \E p \in Callers : RaceAction(RaceCheck(p))
    \/ \E p \in Callers, out \in CmdOutcomes : RaceAction(RaceSend(p, out))
    \/ \E p \in Callers : RaceAction(RaceWrite(p))

SpecRace == InitRace /\ [][NextRace]_vars

(***************************************************************************)
(* calc_bill_bd (app.py:371-383) in fixed point: kwh is counted in tenths  *)
(* of a kWh, a rate in hundredths of a taka per kWh, and so an amount in   *)
(* thousandths of a taka.                                                  *)
(***************************************************************************)
\* 3.75, 4.19, 5.72, 6.00, 6.34, 9.94
Rates == <<375, 419, 572, 600, 634, 994>>

\* 50, 75, 200, 300, 400
Limits == <<500, 750, 2000, 3000, 4000>>

\* The factors of the full tiers: 50, 25, 125, 100, 100
Widths == <<500, 250, 1250, 1000, 1000>>

\* (50 * 3.75) + (25 * 4.19) + ...: the full tiers below tier n.
RECURSIVE TiersBelow(_)
TiersBelow(n) ==
    IF n = 1 THEN 0 ELSE TiersBelow(n - 1) + Widths[n - 1] * Rates[n - 1]

\* The return expression of the n-th branch.
TierAmount(n, k) ==
    TiersBelow(n) + (k - (IF n = 1 THEN 0 ELSE Limits[n - 1])) * Rates[n]

\* The branch taken: the first n with kwh <= the n-th limit, else the last.
TierOf(k) ==
    IF k > Limits[Len(Limits)] THEN Len(Rates)
    ELSE CHOOSE n \in 1..Len(Limits) :
             k <= Limits[n] /\ \A j \in 1..(n - 1) : k > Limits[j]

\* Mutant: a branch charges the whole usage at its rate.
calc_bill_whole_usage(k) == k * Rates[TierOf(k)]

calc_bill_bd(k) == TierAmount(TierOf(k), k)

\* The arguments of the call: from -2 kWh to MaxKwh kWh in steps of 0.1 kWh.
KwhInputs == (-20)..(10 * MaxKwh)

InitBill ==
    /\ kwh \in KwhInputs
    /\ bill = [state |-> "pending", amount |-> 0]
    /\ IdleSched
    /\ IdleCloud
    /\ IdlePoll
    /\ second = 0 /\ waited = 0 /\ evaluatedBy = {}
    /\ readded = {} /\ unseen = {} /\ fresh = {}
    /\ inserted = [d \in DeviceIds |-> 0] /\ online = {}
    /\ runs = [p \in Callers |-> IdleRun]
    /\ acks = [k \in SchedIds \X Kinds |-> 0]

CallCalcBill ==
    /\ bill.state = "pending"
    /\ bill' = [state |-> "returned", amount |-> calc_bill_bd(kwh)]
    /\ UNCHANGED <<kwh, schedVars, cloudVars, pollVars, tickVars, joinVars, obsVars>>

NextBill == CallCalcBill

SpecBill == InitBill /\ [][NextBill]_vars

\* C15: calc_bill_bd does not decrease when kwh grows; at each tier limit
\* the formula of the tier above gives the amount of the tier below; and
\* bill(0) = 0, bill(50) = 187.5, bill(75) = 292.25.
C15_MonotoneAndContinuous ==
    bill.state = "returned" =>
        /\ bill.amount = calc_bill_bd(kwh)
        /\ bill.amount <= calc_bill_bd(kwh + 1)
        /\ \A n \in 1..Len(Limits) :
               kwh = Limits[n] => bill.amount = TierAmount(n + 1, kwh)
        /\ kwh = 0 => bill.amount = 0
        /\ kwh = 500 => bill.amount = 187500
        /\ kwh = 750 => bill.amount = 292250

\* C15 witness: the bill of 75 kWh has been computed.
C15_Witness == bill.state = "returned" /\ kwh = 750 /\ bill.amount = 292250

(***************************************************************************)
(* Claims about the schedule evaluator.                                    *)
(***************************************************************************)
\* A step that is one run of the evaluator.
EvaluatorStep == clock' = clock /\ lastRun'.seq # lastRun.seq

Attempted(issued) == Commands(issued, CmdOutcomes)

\* C1: with the schedule 08:00-18:00 on Mondays and a reachable cloud, the
\* runs of a Monday and a Tuesday, one per minute, issue exactly the ON
\* command in the run of Monday 08:00, the OFF command in the run of Monday
\* 18:00, and no command in any other run, so none on the Tuesday.
C1_OneOnOneOffNoneOnTuesday ==
    [][EvaluatorStep =>
        lastRun'.issued =
            IF clock = [day |-> 0, minute |-> 480]
            THEN {[id |-> 1, kind |-> "ON", outcome |-> "ok"]}
            ELSE IF clock = [day |-> 0, minute |-> 1080]
            THEN {[id |-> 1, kind |-> "OFF", outcome |-> "ok"]}
            ELSE {}]_vars

\* C1 witness: the last minute of the Tuesday has been evaluated, both
\* commands were answered on the Monday and nothing was sent on the Tuesday.
C1_Witness ==
    /\ clock = [day |-> 1, minute |-> MinutesPerDay - 1]
    /\ lastRun.seq = 1
    /\ ackDay[<<1, "ON">>] = 0 /\ ackDay[<<1, "OFF">>] = 0
    /\ sentToday = {}

\* C2 as stated: a run in the same minute as the run before it issues no
\* command that the run before it issued (a POST was made).
C2_NoReissueAfterIssue ==
    [][EvaluatorStep =>
        Commands(lastRun.issued, Posted) \cap Commands(lastRun'.issued, Posted) = {}]_vars

\* C2 amended: a run in the same minute as the run before it attempts no
\* command that was answered with 200 in the run before it.
C2_NoReissueAfterAck ==
    [][EvaluatorStep =>
        Commands(lastRun.issued, {"ok"}) \cap Attempted(lastRun'.issued) = {}]_vars

\* C2 witness: the second run of a minute is over and has issued nothing,
\* the ON command of the schedule, due in this minute, having been answered
\* with 200 before it.
C2_Witness ==
    /\ lastRun = [seq |-> 0, db |-> TRUE, issued |-> {}]
    /\ schedules[1].enabled = 1 /\ schedules[1].device_id \in devices
    /\ Transition(schedules[1], StrftimeHM(clock), Lower(StrftimeA(clock))) = "ON"
    /\ ackDay[<<1, "ON">>] = clock.day
    /\ AlreadyExecuted(tracker, TrackerKey(1, "ON", Lower(StrftimeA(clock))),
                       StrftimeHM(clock))

C4_FiresAgainNextWeek ==
    [][(EvaluatorStep /\ lastRun'.db) =>
        \A id \in EnabledRowSet :
            LET kind == Transition(schedules[id], StrftimeHM(clock),
                                   Lower(StrftimeA(clock)))
            IN  (kind # "none" /\ ackDay[<<id, kind>>] = clock.day - 7)
                    => <<id, kind>> \in Attempted(lastRun'.issued)]_vars

\* The tracker keys of the commands of issued that were answered with 200.
AckedKeys(issued) ==
    {TrackerKey(p[1], p[2], Lower(StrftimeA(clock))) : p \in Commands(issued, {"ok"})}

\* The command p = <<id, kind>> is due at this moment.
Due(p) ==
    /\ p[1] \in EnabledRowSet
    /\ Transition(schedules[p[1]], StrftimeHM(clock), Lower(StrftimeA(clock))) = p[2]

\* C12: a run writes the tracker entries of the commands answered with 200
\* and no other entry, so that a command that got no token, another status
\* or an exception leaves the tracker as it was; and the next run of the same
\* minute attempts such a command again while it is due.
C12_FailureLeavesTrackerAndRetries ==
    [][EvaluatorStep =>
        /\ tracker' = [k \in DOMAIN tracker \cup AckedKeys(lastRun'.issued) |->
                          IF k \in AckedKeys(lastRun'.issued) THEN StrftimeHM(clock)
                          ELSE tracker[k]]
        /\ lastRun'.db =>
             \A p \in Commands(lastRun.issued, CmdOutcomes \ {"ok"}) :
                 Due(p) => p \in Attempted(lastRun'.issued)]_vars

\* C12 witness: the second run of a minute has attempted the ON command
\* again, without success again, and the tracker holds no entry for it.
C12_Witness ==
    /\ lastRun.seq = 0
    /\ \E c \in lastRun.issued :
        /\ c.kind = "ON"
        /\ c.outcome = "timeout"
        /\ TrackerKey(c.id, "ON", Lower(StrftimeA(clock))) \notin DOMAIN tracker

\* C13 as stated: a run at the minute that is both the start and the end
\* time of an enabled schedule, on a listed weekday and with an empty
\* tracker, attempts the ON command and the OFF command of that schedule.
C13_EqualTimesBothFire ==
    [][(EvaluatorStep /\ lastRun'.db) =>
        \A id \in EnabledRowSet :
            (/\ schedules[id].start_time = StrftimeHM(clock)
             /\ schedules[id].end_time = StrftimeHM(clock)
             /\ Lower(StrftimeA(clock)) \in ScheduleDays(schedules[id].days)
             /\ tracker = <<>>)
                => {<<id, "ON">>, <<id, "OFF">>} \subseteq Attempted(lastRun'.issued)]_vars

\* The days of the clock that the days text of the scenario lists.
ListedInScenario(days, day) ==
    IF days = "monday" THEN day % 7 = 0 ELSE day % 7 \in {0, 1}

\* C20: with the schedule 22:00-02:00, each run matches both times against
\* the weekday of its own moment: the run of 02:00 on a listed day issues
\* the OFF command, the run of 22:00 on a listed day the ON command, and no
\* other run issues a command, so none at 02:00 of the day after a listed
\* day that is not listed itself.
C20_OvernightUsesCurrentWeekday ==
    [][EvaluatorStep =>
        lastRun'.issued =
            IF ~ListedInScenario(schedules[1].days, clock.day) THEN {}
            ELSE IF clock.minute = 120
            THEN {[id |-> 1, kind |-> "OFF", outcome |-> "ok"]}
            ELSE IF clock.minute = 1320
            THEN {[id |-> 1, kind |-> "ON", outcome |-> "ok"]}
            ELSE {}]_vars

\* C20 witness: 02:00 of the Tuesday has been evaluated for the schedule
\* of Mondays; the OFF and the ON command were answered on the Monday and
\* nothing was sent on the Tuesday.
C20_Witness ==
    /\ schedules[1] = NightSchedule("monday")
    /\ clock = [day |-> 1, minute |-> 120]
    /\ lastRun = [seq |-> 1, db |-> TRUE, issued |-> {}]
    /\ ackDay[<<1, "ON">>] = 0 /\ ackDay[<<1, "OFF">>] = 0
    /\ sentToday = {}

(***************************************************************************)
(* Claims about the readings store and the poll loop.                      *)
(***************************************************************************)
\* The rows the loop's connection sees: the committed ones and its own.
Visible == readings \cup txn

\* The INSERT of the loop is executed in this step.
InsertStep == pc = "insert" /\ pc' = "commit"

\* What get_device_data returns to the loop for an online device.
OnlineData ==
    {data \in {get_device_data(in) : in \in PollCloudInputs} :
        data.state = "returned" /\ Truthy(data.is_online)}

\* No row of the store has the key (device_id, stamp).
KeyAbsent(device_id, stamp) ==
    \A r \in Visible : r.device_id # device_id \/ r.ts # stamp

\* C5: the readings store holds at most one row per (device_id, ts); an
\* INSERT whose (device_id, ts) exists raises nothing and leaves the rows,
\* with the existing row's voltage, current and power, as they are; and two
\* inserts with the same key leave one row, whichever is performed first.
C5_OneRowPerKey ==
    /\ [](\A r1, r2 \in Visible : SameKey(r1, r2) => r1 = r2)
    /\ [][(InsertStep /\ \E r \in Visible : r.device_id = devlist[idx] /\ r.ts = ts)
              => readings' \cup txn' = Visible]_vars
    /\ [](\A d \in DeviceIds, stamp \in TsValues(clock) :
            KeyAbsent(d, stamp) =>
                \A data1, data2 \in OnlineData :
                    LET r1 == ReadingRow(d, stamp, data1)
                        r2 == ReadingRow(d, stamp, data2)
                    IN  /\ InsertOrIgnore(InsertOrIgnore(Visible, r1), r2)
                               = Visible \cup {r1}
                        /\ InsertOrIgnore(InsertOrIgnore(Visible, r2), r1)
                               = Visible \cup {r2})

\* A second reading of a device, with another power, has met the stored row
\* of the same second, and the stored row is the first one.
C5_Witness ==
    /\ pc = "commit"
    /\ txn = {}
    /\ \E r \in readings :
        /\ r.device_id = devlist[idx]
        /\ r.ts = ts
        /\ r.power # fetched.power

\* delete_device(d) is answered with success in this step.
DeleteStep(d) == d \in devices /\ d \notin devices'

Range(l) == {l[i] : i \in DOMAIN l}

\* The loop is working on device d: between its first existence check and
\* its log line.
Processing(d) ==
    /\ pc \in {"check1", "fetch", "check2", "insert", "commit"}
    /\ devlist[idx] = d

\* C6: when delete_device(d) returns success the readings store holds no row
\* for d, and a poll cycle that starts afterwards, d not being added again,
\* does not list d: it fetches nothing and inserts nothing for d and logs
\* no error for d.
C6_DeletedDeviceIsSkipped ==
    /\ [][\A d \in DeviceIds :
            DeleteStep(d) => \A r \in readings' : r.device_id # d]_vars
    /\ [](\A d \in deletedBefore :
            /\ d \notin Range(devlist)
            /\ ~Processing(d)
            /\ outcome[d] = "none"
            /\ \A r \in txn : r.device_id # d)

\* A device was deleted, and a cycle that began afterwards has worked
\* through its list and stored the reading of a device that is registered.
C6_Witness ==
    /\ pc = "close"
    /\ deletedBefore # {}
    /\ \E e \in Range(devlist) : outcome[e] = "stored"
    /\ \A r \in readings : r.device_id \notin deletedBefore

\* C7: every reading row in the store refers to a device that is registered.
C7_NoOrphanReading == \A r \in readings : r.device_id \in devices

\* The device loop of this cycle has ended.
LoopDone == pc \in {"close", "sleep"} /\ loopErr = "none"

\* C9: a device that is offline, whose fetch fails or whose existence check,
\* insert or commit raises does not abort the cycle: when the device loop
\* ends, every device of the cycle's list has had its turn and its log line,
\* and after a device's failure the loop goes on with the next of the list.
C9_DeviceFailureDoesNotAbort ==
    /\ [](LoopDone => /\ idx = Len(devlist) + 1
                      /\ \A d \in Range(devlist) : outcome[d] # "none")
    /\ [][\A d \in DeviceIds :
            (Processing(d) /\ outcome'[d] \in {"error", "offline"} /\ outcome[d] = "none"
                 /\ idx < Len(devlist))
                => (pc' = "check1" /\ idx' = idx + 1)]_vars

\* The first device of the list raised, and the second one was stored.
C9_Witness ==
    /\ pc = "close"
    /\ Len(devlist) = 2
    /\ outcome[devlist[1]] = "error"
    /\ outcome[devlist[2]] = "stored"

\* C10: collect_data_periodically has no terminal or stuck state: whatever
\* fails in a cycle, the loop reaches a sleep and then starts another cycle.
C10_LoopNeverEnds ==
    /\ []<>(pc = "sleep")
    /\ []<>(pc = "top")
    /\ [](pc \in {"top", "check1", "fetch", "check2", "insert", "commit", "close",
                  "sleep"})

\* The schedule check failed on the database, the connection of the cycle
\* could not be opened, and the loop stands at the head of the next cycle.
C10_Witness ==
    /\ pc = "top"
    /\ loopErr = "connect"
    /\ lastRun.seq > 0
    /\ ~lastRun.db

(***************************************************************************)
(* Claims about the schedule API and the device API beside the evaluator.  *)
(***************************************************************************)
\* The texts strftime('%H:%M') can give.
ValidTimes == {StrftimeHM([day |-> 0, minute |-> m]) : m \in 0..(MinutesPerDay - 1)}

\* The texts strftime('%A').lower() can give.
WeekdayNames == {Lower(StrftimeA([day |-> d, minute |-> 0])) : d \in 0..6}

\* A days text that is a list of weekday names, read as the evaluator reads it.
WellFormedDays(days) == ScheduleDays(days) \subseteq WeekdayNames

\* C14 as stated: every schedule row the evaluator can read has a start
\* time and an end time of the form HH:MM and a days text that is a list of
\* weekday names, create_schedule and update_schedule having rejected
\* everything else.
C14_StoredSchedulesWellFormed ==
    \A id \in DOMAIN schedules :
        /\ schedules[id].start_time \in ValidTimes
        /\ schedules[id].end_time \in ValidTimes
        /\ WellFormedDays(schedules[id].days)

\* C16: delete_device leaves the schedule rows as they are; no run issues a
\* command for a schedule whose device is not registered; and a run issues
\* the command that is due for an enabled schedule of a device that was
\* registered again, unless the tracker holds it for this minute.
C16_SchedulesOutliveTheirDevice ==
    /\ [][\A d \in DeviceIds : DeleteStep(d) => schedules' = schedules]_vars
    /\ [][EvaluatorStep =>
            \A c \in lastRun'.issued : schedules[c.id].device_id \in devices]_vars
    /\ [][(EvaluatorStep /\ lastRun'.db) =>
            \A id \in DOMAIN schedules :
                LET row  == schedules[id]
                    kind == Transition(row, StrftimeHM(clock), Lower(StrftimeA(clock)))
                    key  == TrackerKey(id, kind, Lower(StrftimeA(clock)))
                IN  (/\ row.enabled = 1
                     /\ row.device_id \in readded
                     /\ kind # "none"
                     /\ ~AlreadyExecuted(tracker, key, StrftimeHM(clock)))
                        => <<id, kind>> \in Attempted(lastRun'.issued)]_vars

\* C16 witness: the device of the schedule was deleted and registered
\* again, the schedule is still stored, and a run has issued its command.
C16_Witness ==
    \E c \in lastRun.issued :
        /\ schedules[c.id].device_id \in readded
        /\ c.outcome = "ok"

\* C17: every command of a run belongs to a schedule that is enabled, whose
\* device is registered and whose days, trimmed and lower-cased, hold the
\* weekday of the run; it is ON with the time of the run equal to the start
\* time, or OFF with it equal to the end time.
C17_CommandOnlyWhenDue ==
    [][EvaluatorStep =>
        \A c \in lastRun'.issued :
            LET row == schedules[c.id]
            IN  /\ row.enabled = 1
                /\ row.device_id \in devices
                /\ Lower(StrftimeA(clock)) \in ScheduleDays(row.days)
                /\ \/ c.kind = "ON" /\ StrftimeHM(clock) = row.start_time
                   \/ c.kind = "OFF" /\ StrftimeHM(clock) = row.end_time]_vars

\* C17 witness: a run on the database has issued nothing for a schedule
\* that is disabled and whose start time and weekday are those of the run.
C17_Witness ==
    /\ lastRun = [seq |-> 1, db |-> TRUE, issued |-> {}]
    /\ tracker = <<>>
    /\ 1 \in DOMAIN schedules
    /\ schedules[1].enabled = 0
    /\ schedules[1].device_id \in devices
    /\ schedules[1].start_time = StrftimeHM(clock)
    /\ Lower(StrftimeA(clock)) \in ScheduleDays(schedules[1].days)

(***************************************************************************)
(* Claims about the evaluator in wall-clock time.                          *)
(***************************************************************************)
\* The evaluator is run by the poll loop in this step.
LoopEvaluates == EvaluatorStep /\ pc = "top" /\ pc' # "top"

\* C11 as stated: the evaluator runs at most once in a wall-clock minute,
\* whoever calls it: no run starts in a minute that already had a run, be it
\* of the loop or of the /api/schedules/test handler.
C11_AtMostOncePerMinute == [][EvaluatorStep => evaluatedBy = {}]_vars

\* C11: the poll loop runs the evaluator at most once in a wall-clock
\* minute: a cycle that starts in a minute the loop has already evaluated
\* does not evaluate again. (The /api/schedules/test handler is outside the
\* latch and runs the evaluator on every request.)
C11_LoopAtMostOncePerMinute == [][LoopEvaluates => "loop" \notin evaluatedBy]_vars

\* C11 witness: in the minute the loop started in, and evaluated at second
\* 0, a later cycle has passed the latch and stands at its first device.
C11_Witness ==
    /\ clock = FirstTick
    /\ second >= SleepSeconds
    /\ pc = "check1"
    /\ waited = 0
    /\ "loop" \in evaluatedBy
    /\ last_schedule_check_minute = NowMinute(clock)

\* C19: while the poll loop runs, the evaluator is run in every wall-clock
\* minute, however long the polling of the devices takes: no minute ends
\* without a run of the evaluator in it.
C19_EveryMinuteEvaluated == [][(clock' # clock) => evaluatedBy # {}]_vars

(***************************************************************************)
(* Claims about the device list of the poll loop.                          *)
(***************************************************************************)
\* The device list of a cycle is read in this step.
ListStep == pc = "top" /\ pc' # "top" /\ loopErr' = "none"

\* The first existence check of the current device is done in this step.
CheckStep == pc = "check1" /\ (pc' # "check1" \/ idx' # idx)

\* C18: every cycle reads the device table anew: the list of a cycle is the
\* table at the cycle's start, so it holds each device add_device has
\* registered since the list was last read and each device of an earlier
\* list that is still registered; each device of the list has its turn, and
\* get_device_data is called for it when its existence check, which does
\* not raise, finds it still registered. (A cycle whose connection or list
\* query raises handles no device at all, and is followed by the next.)
C18_RegisteredDeviceJoinsNextCycle ==
    /\ [][ListStep => /\ Range(devlist') = devices
                      /\ Len(devlist') = Cardinality(devices)
                      /\ fresh' = unseen
                      /\ fresh' \subseteq Range(devlist')]_vars
    /\ [][(CheckStep /\ devlist[idx] \in devices /\ outcome'[devlist[idx]] # "error")
            => (pc' = "fetch" /\ idx' = idx)]_vars
    /\ [](LoopDone => \A d \in fresh : outcome[d] # "none")

\* C18 witness: a device registered while the loop was in an earlier cycle
\* is in the list of this cycle, was found registered, and the loop stands
\* at the call of get_device_data for it.
C18_Witness ==
    /\ pc = "fetch"
    /\ devlist[idx] \in fresh
    /\ devlist[idx] \in devices

(***************************************************************************)
(* Claims about the rows a cycle writes.                                   *)
(***************************************************************************)
\* C21: the loop inserts a reading for a device in a cycle only if
\* get_device_data has given the device as online in that cycle: every row
\* that appears is the one row of the loop's INSERT for the device at hand,
\* built from what get_device_data returned, and that device is online; a
\* device logged as OFFLINE has no row from the cycle; and no device gets
\* more than one row in a cycle.
C21_RowsOnlyForOnlineDevices ==
    /\ [](\A d \in DeviceIds : /\ inserted[d] <= 1
                               /\ inserted[d] = 1 => d \in online
                               /\ outcome[d] = "offline" => inserted[d] = 0)
    /\ [][\A d \in DeviceIds :
            RowsAdded(d) # {} =>
                /\ InsertStep
                /\ d = devlist[idx]
                /\ d \in online
                /\ Truthy(fetched.is_online)
                /\ RowsAdded(d) = {ReadingRow(d, ts, fetched)}]_vars

\* C21 witness: a cycle over two devices has ended; one was given as online
\* and has its one row, stored, the other was logged as OFFLINE and has none.
C21_Witness ==
    /\ LoopDone
    /\ \E d \in DeviceIds, e \in DeviceIds :
        /\ outcome[d] = "stored"
        /\ inserted[d] = 1
        /\ d \in online
        /\ \E r \in readings : r.device_id = d
        /\ outcome[e] = "offline"
        /\ inserted[e] = 0
        /\ e \notin online

(***************************************************************************)
(* Claims about invocations of the evaluator that overlap.                 *)
(***************************************************************************)
\* C22: under every interleaving of two invocations of the evaluator that
\* overlap in one minute, the ON (resp. OFF) command of a schedule is sent
\* at most once; stated for the commands the cloud answers with 200, which
\* one invocation after the other never sends twice in a minute.
C22_CommandSentAtMostOnce == \A k \in SchedIds \X Kinds : acks[k] <= 1

====
